---- MODULE Spec2Model ----
(***************************************************************************)
(* A model of labels.py: the deduplication of catalogue rows against the   *)
(* per-mode file of printed hashes, and the label grid of generate_labels. *)
(*                                                                         *)
(* One behaviour is a sequence of invocations of the script on one         *)
(* working directory.  The directory holds the CSV file, the two hash      *)
(* files printed_<mode>.hashes and the two documents labels_<mode>.pdf.    *)
(* Lengths are in hundredths of a point, so that 2.83 is the integer 283.  *)
(***************************************************************************)
EXTENDS Integers, Sequences, FiniteSets, TLC

\* ------------------------------------------------------------------ bounds
MaxRows == 2
MaxLabels == 25
MaxCols == 3
MaxRowsPerPage == 8

\* --------------------------------------------------------------- cell data
\* pandas reads an empty cell as NaN and any other cell as its text
NaN == <<"NaN">>

MagazineCells == {NaN, <<"V">>, <<"v", " ">>, <<" ">>}
EditionCells == {NaN, <<"1">>}
YearCells == {NaN, <<"2">>}

Records == [Magazine : MagazineCells, Edition : EditionCells, Year : YearCells]

\* the characters a cell can hold, in the order of their codes
Chars == <<" ", "|", "0", "1", "2", "3", "4", "5", "6", "7", "8", "9", "v", "V">>

Code(ch) == CHOOSE k \in DOMAIN Chars : Chars[k] = ch

\* str.lower on one character
LowerChar(ch) ==
    CASE ch = "V" -> "v"
      [] ch = "C" -> "c"
      [] ch = "M" -> "m"
      [] OTHER -> ch

Lower(s) == [k \in DOMAIN s |-> LowerChar(s[k])]

RECURSIVE LStrip(_)
LStrip(s) == IF s # <<>> /\ Head(s) = " " THEN LStrip(Tail(s)) ELSE s

RECURSIVE RStrip(_)
RStrip(s) ==
    IF s # <<>> /\ s[Len(s)] = " " THEN RStrip(SubSeq(s, 1, Len(s) - 1)) ELSE s

Strip(s) == RStrip(LStrip(s))

\* norm(s)
norm(s) == IF s = NaN THEN <<>> ELSE Strip(Lower(s))

\* row_to_string(row)
row_to_string(row) ==
    norm(row.Magazine) \o <<"|">> \o norm(row.Edition) \o <<"|">> \o norm(row.Year)

\* hashlib.sha256(...).hexdigest(): an injective digest of the key, the
\* number whose digits in base Len(Chars) + 1 are the codes of the key
RECURSIVE Digest(_)
Digest(s) ==
    IF s = <<>> THEN 0
    ELSE Digest(SubSeq(s, 1, Len(s) - 1)) * (Len(Chars) + 1) + Code(s[Len(s)])

\* hash_row(row)
hash_row(row) == Digest(row_to_string(row))

\* ------------------------------------------------------------------- files
Modes == {"clippings", "magazines"}

HashPaths == {"printed_clippings.hashes", "printed_magazines.hashes"}
DocPaths == {"labels_clippings.pdf", "labels_magazines.pdf"}

\* hash_file_for_mode(mode), mutated: one file for both modes
hash_file_shared(m) == "printed_clippings.hashes"

\* hash_file_for_mode(mode)
hash_file_for_mode(m) ==
    IF m = "clippings" THEN "printed_clippings.hashes" ELSE "printed_magazines.hashes"

\* the name of the canvas file of generate_labels
doc_file_for_mode(m) ==
    IF m = "clippings" THEN "labels_clippings.pdf" ELSE "labels_magazines.pdf"

NoFile == [exists |-> FALSE, lines |-> <<>>]

\* sorted(hashes)
RECURSIVE sorted(_)
sorted(S) ==
    IF S = {} THEN <<>>
    ELSE LET least == CHOOSE x \in S : \A y \in S : x <= y
         IN  <<least>> \o sorted(S \ {least})

\* load_hashes, on the content f of the file of the mode
load_hashes(f) == IF ~f.exists THEN {} ELSE {f.lines[k] : k \in DOMAIN f.lines}

\* --------------------------------------------------------------- filter_new
\* the test of line 59: the hash is compared with the loaded set
unseen(h, known, new_hashes) == h \notin known

\* new_hashes = set(known), mutated: the loaded hashes are dropped
new_hashes_empty(known) == {}

\* new_hashes = set(known)
new_hashes_init(known) == known

\* new_hashes.add(h), mutated: the hash of an accepted row is not recorded
add_hash_dropped(new_hashes, h) == new_hashes

\* new_hashes.add(h)
add_hash(new_hashes, h) == new_hashes \cup {h}

\* the loop of filter_new over the rows of df
RECURSIVE filter_loop(_, _, _, _)
filter_loop(df, known, rows, hashes) ==
    IF df = <<>> THEN [new_rows |-> rows, new_hashes |-> hashes]
    ELSE LET row == Head(df)
             h == hash_row(row)
         IN  IF unseen(h, known, hashes)
             THEN filter_loop(Tail(df), known, Append(rows, row), add_hash(hashes, h))
             ELSE filter_loop(Tail(df), known, rows, hashes)

\* filter_new(df, mode), given the loaded set
filter_new(df, known) == filter_loop(df, known, <<>>, new_hashes_init(known))

\* ---------------------------------------------------------- page and grid
MmPt == 283
PageMargin == 2000

\* A4 of reportlab.lib.pagesizes, 595.27 x 841.89 points
A4 == <<59527, 84188>>

label_w(m) == IF m = "clippings" THEN 50 * MmPt ELSE 30 * MmPt
label_h(m) == IF m = "clippings" THEN 13 * MmPt ELSE 15 * MmPt

usable_width(size) == size[1] - PageMargin - PageMargin
usable_height(size) == size[2] - PageMargin - PageMargin

\* cols = int(usable_width // label_w)
grid_cols(size, m) == usable_width(size) \div label_w(m)

\* rows_per_page = int(usable_height // label_h)
grid_rows(size, m) == usable_height(size) \div label_h(m)

\* col = i % cols
col_of(k, ncols, nrows) == k % ncols

\* row_i, mutated: the row is not wrapped at the end of the page
row_unwrapped(k, ncols, nrows) == k \div ncols

\* row_i = (i // cols) % rows_per_page
row_of(k, ncols, nrows) == (k \div ncols) % nrows

\* i % (cols * rows_per_page) == 0, after i += 1
page_full(k, ncols, nrows) == k % (ncols * nrows) = 0

\* the text of an f-string field
format(cell) == IF cell = NaN THEN <<"n", "a", "n">> ELSE cell

\* Paragraph(text, style) takes a string: NaN is a float and raises
paragraph_raises(text) == text = NaN

\* ------------------------------------------------------------ module level
\* mode not in ("c", "m"), mutated: every answer is accepted
mode_any(a) == TRUE

\* mode in ("c", "m")
mode_valid(a) == a \in {<<"c">>, <<"m">>}

\* len(new_rows) == 0, mutated: the branch is never taken
no_new_never(rows) == FALSE

\* len(new_rows) == 0
no_new(rows) == Len(rows) = 0

\* the else branch of lines 241-244, mutated: the hashes are saved first
else_branch_swapped == <<"save_hashes", "generate">>

\* the else branch of lines 241-244: generate_labels, then save_hashes
else_branch == <<"generate", "save_hashes">>

\* the statement that follows statement s of the else branch
after(s) ==
    LET k == CHOOSE j \in DOMAIN else_branch : else_branch[j] = s
    IN  IF k < Len(else_branch) THEN else_branch[k + 1] ELSE "print"

\* the answers to the mode prompt, and the names given to the CSV prompt
ModeAnswers == {<<"c">>, <<" ", "M">>, <<"x">>}
CsvName == [stem : {"data", "nope"}, csv : BOOLEAN]

\* if not csv_name.endswith(".csv"): csv_name += ".csv"
with_suffix(n) == [n EXCEPT !.csv = TRUE]

\* os.path.exists(csv_name): the directory holds data.csv
csv_exists(n) == n = [stem |-> "data", csv |-> TRUE]

\* ------------------------------------------------------------------- state
VARIABLES
    pc,             \* the statement the invocation is at
    page,           \* width, height = A4
    csv,            \* the rows of data.csv
    file,           \* the hash file at each path of HashPaths
    doc,            \* the document at each path of DocPaths
    answer,         \* the answer to the mode prompt, stripped and lowered
    mode,           \* mode
    csv_name,       \* csv_name, with its suffix
    known,          \* known, of filter_new
    new_rows,       \* new_rows
    new_hashes,     \* new_hashes
    canvas,         \* c: the pages shown and the page being drawn
    cols,           \* cols
    rows_per_page,  \* rows_per_page
    i,              \* i, of the loop of generate_labels
    todo,           \* the lines save_hashes has still to write
    err,            \* the exception that ended the invocation
    file0,          \* file, when the invocation started
    doc0,           \* doc, when the invocation started
    reads,          \* the paths the invocation has opened for reading
    writes          \* the paths the invocation has opened for writing

vars == <<pc, page, csv, file, doc, answer, mode, csv_name, known, new_rows, new_hashes,
          canvas, cols, rows_per_page, i, todo, err, file0, doc0, reads, writes>>

disk == <<page, csv>>
prompts == <<answer, mode, csv_name>>
locals == <<known, new_rows, new_hashes>>
drawing == <<canvas, cols, rows_per_page, i>>

NoCanvas == [pages |-> <<>>, cur |-> <<>>]
NoDoc == [exists |-> FALSE, pages |-> <<>>]

\* the sequences of at most n elements of S
RECURSIVE SeqsUpTo(_, _)
SeqsUpTo(S, n) ==
    IF n = 0 THEN {<<>>}
    ELSE LET shorter == SeqsUpTo(S, n - 1)
         IN  shorter \cup {Append(q, x) : q \in shorter, x \in S}

\* a hash file as save_hashes leaves it
written(hashes) == [exists |-> TRUE, lines |-> sorted(hashes)]

\* the hash files left by earlier invocations: none, or the hash of one row
\* that had an edition and a year
PriorFiles ==
    {NoFile} \cup
    {written({hash_row(r)}) : r \in {q \in Records : q.Edition # NaN /\ q.Year # NaN}}

\* the start of an invocation
Fresh ==
    /\ pc = "mode"
    /\ answer = <<>>
    /\ mode = "none"
    /\ csv_name = [stem |-> "", csv |-> FALSE]
    /\ known = {}
    /\ new_rows = <<>>
    /\ new_hashes = {}
    /\ canvas = NoCanvas
    /\ cols = 0
    /\ rows_per_page = 0
    /\ i = 0
    /\ todo = <<>>
    /\ err = "none"
    /\ reads = {}
    /\ writes = {}

Init ==
    /\ Fresh
    /\ page = A4
    /\ csv \in SeqsUpTo(Records, MaxRows)
    /\ file \in [HashPaths -> PriorFiles]
    /\ doc = [p \in DocPaths |-> NoDoc]
    /\ file0 = file
    /\ doc0 = doc

\* ----------------------------------------------------------------- actions
\* lines 218-222: the mode prompt
InputMode ==
    /\ pc = "mode"
    /\ \E a \in ModeAnswers :
        LET m == Strip(Lower(a))
        IN  /\ answer' = m
            /\ IF mode_valid(m)
               THEN /\ mode' = (IF m = <<"c">> THEN "clippings" ELSE "magazines")
                    /\ pc' = "csv"
                    /\ err' = err
               ELSE /\ mode' = mode
                    /\ pc' = "error"
                    /\ err' = "ValueError"
    /\ UNCHANGED <<disk, file, doc, csv_name, locals, drawing, todo, file0, doc0, reads, writes>>

\* lines 224-229: the file name prompt
InputCsvName ==
    /\ pc = "csv"
    /\ \E n \in CsvName :
        /\ csv_name' = with_suffix(n)
        /\ IF csv_exists(with_suffix(n))
           THEN pc' = "filter" /\ err' = err
           ELSE pc' = "error" /\ err' = "FileNotFoundError"
    /\ UNCHANGED <<disk, file, doc, answer, mode, locals, drawing, todo, file0, doc0,
                   reads, writes>>

\* lines 234-237: read_csv, and filter_new with its load_hashes
FilterNew ==
    /\ pc = "filter"
    /\ LET path == hash_file_for_mode(mode)
           loaded == load_hashes(file[path])
           out == filter_new(csv, loaded)
       IN  /\ known' = loaded
           /\ new_rows' = out.new_rows
           /\ new_hashes' = out.new_hashes
           /\ reads' = reads \cup {"data.csv"} \cup (IF file[path].exists THEN {path} ELSE {})
    /\ pc' = "branch"
    /\ UNCHANGED <<disk, file, doc, prompts, drawing, todo, err, file0, doc0, writes>>

\* lines 239-240: no new labels
NoNewLabels ==
    /\ pc = "branch"
    /\ no_new(new_rows)
    /\ pc' = "done"
    /\ UNCHANGED <<disk, file, doc, prompts, locals, drawing, todo, err, file0, doc0,
                   reads, writes>>

\* line 241: the else branch is entered
ElseBranch ==
    /\ pc = "branch"
    /\ ~no_new(new_rows)
    /\ pc' = else_branch[1]
    /\ UNCHANGED <<disk, file, doc, prompts, locals, drawing, todo, err, file0, doc0,
                   reads, writes>>

\* lines 69-176: the canvas, the grid and i = 0
GenerateStart ==
    /\ pc = "generate"
    /\ canvas' = NoCanvas
    /\ cols' = grid_cols(page, mode)
    /\ rows_per_page' = grid_rows(page, mode)
    /\ i' = 0
    /\ pc' = "draw"
    /\ UNCHANGED <<disk, file, doc, prompts, locals, todo, err, file0, doc0,
                   reads, writes>>

\* lines 177-211: one label is drawn
DrawLabel ==
    /\ pc = "draw"
    /\ i < Len(new_rows)
    /\ cols # 0
    /\ rows_per_page # 0
    /\ LET row == new_rows[i + 1]
           cell == [idx |-> i,
                    col |-> col_of(i, cols, rows_per_page),
                    row_i |-> row_of(i, cols, rows_per_page),
                    page |-> Len(canvas.pages),
                    line1 |-> row.Magazine,
                    line2 |-> format(row.Edition) \o <<"/">> \o format(row.Year)]
           cur == Append(canvas.cur, cell)
       IN  /\ ~paragraph_raises(row.Magazine)
           /\ canvas' = IF page_full(i + 1, cols, rows_per_page)
                        THEN [pages |-> Append(canvas.pages, cur), cur |-> <<>>]
                        ELSE [canvas EXCEPT !.cur = cur]
    /\ i' = i + 1
    /\ UNCHANGED <<pc, disk, file, doc, prompts, locals, cols, rows_per_page, todo,
                   err, file0, doc0, reads, writes>>

\* lines 178, 179 and 198: the label cannot be drawn, and the exception ends
\* the invocation
DrawRaise ==
    /\ pc = "draw"
    /\ i < Len(new_rows)
    /\ \/ /\ cols = 0 \/ rows_per_page = 0
          /\ err' = "ZeroDivisionError"
       \/ /\ cols # 0
          /\ rows_per_page # 0
          /\ paragraph_raises(new_rows[i + 1].Magazine)
          /\ err' = "AttributeError"
    /\ pc' = "error"
    /\ UNCHANGED <<disk, file, doc, prompts, locals, drawing, todo, file0, doc0,
                   reads, writes>>

\* line 213: c.save() writes the pages shown and the page being drawn
CanvasSave ==
    /\ pc = "draw"
    /\ i = Len(new_rows)
    /\ LET path == doc_file_for_mode(mode)
           pages == IF canvas.cur = <<>> THEN canvas.pages
                    ELSE Append(canvas.pages, canvas.cur)
       IN  /\ doc' = [doc EXCEPT ![path] = [exists |-> TRUE, pages |-> pages]]
           /\ writes' = writes \cup {path}
    /\ pc' = after("generate")
    /\ UNCHANGED <<disk, file, prompts, locals, drawing, todo, err, file0, doc0, reads>>

\* lines 46-47: open(path, "w") empties the file
SaveOpen ==
    /\ pc = "save_hashes"
    /\ LET path == hash_file_for_mode(mode)
       IN  /\ file' = [file EXCEPT ![path] = [exists |-> TRUE, lines |-> <<>>]]
           /\ writes' = writes \cup {path}
    /\ todo' = sorted(new_hashes)
    /\ pc' = "write"
    /\ UNCHANGED <<disk, doc, prompts, locals, drawing, err, file0, doc0, reads>>

\* lines 48-49: one line is written
SaveWrite ==
    /\ pc = "write"
    /\ todo # <<>>
    /\ LET path == hash_file_for_mode(mode)
       IN  file' = [file EXCEPT ![path].lines = Append(@, Head(todo))]
    /\ todo' = Tail(todo)
    /\ UNCHANGED <<pc, disk, doc, prompts, locals, drawing, err, file0, doc0,
                   reads, writes>>

\* the end of the with block of save_hashes
SaveClose ==
    /\ pc = "write"
    /\ todo = <<>>
    /\ pc' = after("save_hashes")
    /\ UNCHANGED <<disk, file, doc, prompts, locals, drawing, todo, err, file0, doc0,
                   reads, writes>>

\* line 244: the count is printed
PrintCount ==
    /\ pc = "print"
    /\ pc' = "done"
    /\ UNCHANGED <<disk, file, doc, prompts, locals, drawing, todo, err, file0, doc0,
                   reads, writes>>

Ended == pc \in {"done", "error", "killed"}

\* the script is invoked again on the same directory
Invoke ==
    /\ Ended
    /\ pc' = "mode"
    /\ answer' = <<>>
    /\ mode' = "none"
    /\ csv_name' = [stem |-> "", csv |-> FALSE]
    /\ known' = {}
    /\ new_rows' = <<>>
    /\ new_hashes' = {}
    /\ canvas' = NoCanvas
    /\ cols' = 0
    /\ rows_per_page' = 0
    /\ i' = 0
    /\ todo' = <<>>
    /\ err' = "none"
    /\ reads' = {}
    /\ writes' = {}
    /\ file0' = file
    /\ doc0' = doc
    /\ UNCHANGED <<disk, file, doc>>

\* the invocation is interrupted
Interrupt ==
    /\ ~Ended
    /\ pc' = "killed"
    /\ UNCHANGED <<disk, file, doc, prompts, locals, drawing, todo, err, file0, doc0,
                   reads, writes>>

Next ==
    \/ InputMode
    \/ InputCsvName
    \/ FilterNew
    \/ NoNewLabels
    \/ ElseBranch
    \/ GenerateStart
    \/ DrawLabel
    \/ DrawRaise
    \/ CanvasSave
    \/ SaveOpen
    \/ SaveWrite
    \/ SaveClose
    \/ PrintCount
    \/ Invoke

Spec == Init /\ [][Next]_vars

SpecInterrupt == Init /\ [][Next \/ Interrupt]_vars

\* --------------------------------------------- the grid on pages of any size
\* str(s) of a whole number
RECURSIVE decimal(_)
decimal(n) ==
    IF n < 10 THEN <<Chars[n + 3]>>
    ELSE decimal(n \div 10) \o <<Chars[(n % 10) + 3]>>

\* a catalogue of n rows that differ in their edition
GridCsv(n) == [k \in 1..n |-> [Magazine |-> <<"V">>, Edition |-> decimal(k), Year |-> <<"2">>]]

\* the pages that hold c by r clippings labels and a point to spare
PageSizes ==
    {<<2 * PageMargin + c * label_w("clippings") + 100,
       2 * PageMargin + r * label_h("clippings") + 100>> :
        c \in 0..MaxCols, r \in 0..MaxRowsPerPage}

InitGrid ==
    /\ Fresh
    /\ page \in PageSizes
    /\ csv \in {GridCsv(n) : n \in 0..MaxLabels}
    /\ file = [p \in HashPaths |-> NoFile]
    /\ doc = [p \in DocPaths |-> NoDoc]
    /\ file0 = file
    /\ doc0 = doc

SpecGrid == InitGrid /\ [][Next]_vars

\* ------------------------------------------------------------------ claims
\* the hashes of the rows of a sequence
hashes_of(rows) == {hash_row(rows[k]) : k \in DOMAIN rows}

\* the cells of the canvas, in the order they were drawn
RECURSIVE flatten(_)
flatten(pages) == IF pages = <<>> THEN <<>> ELSE Head(pages) \o flatten(Tail(pages))

cells_drawn == flatten(canvas.pages) \o canvas.cur

missing_field(row) == row.Magazine = NaN \/ row.Edition = NaN \/ row.Year = NaN

\* C1: filter_new emits a record at most once per normalized key: no row of
\* new_rows has a hash of the loaded seen-set, and no two rows of new_rows
\* have the same hash.
C1_AtMostOncePerKey ==
    pc = "branch" =>
        /\ \A k \in DOMAIN new_rows : hash_row(new_rows[k]) \notin known
        /\ \A j, k \in DOMAIN new_rows : j # k => hash_row(new_rows[j]) # hash_row(new_rows[k])

\* C2: idempotence. Once an invocation has completed, filter_new on the same
\* input and the hash file it left finds no new record; and an invocation in
\* a mode whose document an earlier invocation on the same input has written
\* finds no new record.
C2_Idempotence ==
    /\ pc = "done" =>
           filter_new(csv, load_hashes(file[hash_file_for_mode(mode)])).new_rows = <<>>
    /\ (pc = "branch" /\ doc0[doc_file_for_mode(mode)].exists) => new_rows = <<>>

\* a second invocation in the mode of a completed one, on a catalogue with
\* rows, whose seen-set before the first one held the hash of another row
C2_Witness ==
    /\ pc = "branch"
    /\ doc0[doc_file_for_mode(mode)].exists
    /\ csv # <<>>
    /\ new_rows = <<>>
    /\ ~(known \subseteq hashes_of(csv))

\* C3: the write of the hash file is atomic: after an interruption every hash
\* file is as it was when the invocation started, or holds the complete
\* updated set.
C3_AtomicWrite ==
    pc = "killed" =>
        \A p \in HashPaths : file[p] = file0[p] \/ file[p] = written(new_hashes)

\* C4: rewrite after full success: the hash file changes only in save_hashes,
\* after generate_labels has drawn every new row and saved the document, and
\* an invocation that ends with an exception leaves the hash files as they
\* were when it started.
C4_RewriteAfterSuccess ==
    [][/\ file' # file =>
            /\ pc \in {"save_hashes", "write"}
            /\ i = Len(new_rows)
            /\ doc_file_for_mode(mode) \in writes
            /\ writes \subseteq {doc_file_for_mode(mode), hash_file_for_mode(mode)}
            /\ doc[doc_file_for_mode(mode)].exists
       /\ pc' = "error" => file' = file0']_vars

\* generate_labels fails at its second record, and the hash file of the mode
\* holds no hash of the new rows
C4_Witness ==
    /\ pc = "error"
    /\ err = "AttributeError"
    /\ i = 1
    /\ file = file0
    /\ hashes_of(new_rows) \cap load_hashes(file[hash_file_for_mode(mode)]) = {}

\* C5: a record with a missing field is not an error: no invocation that
\* found a new row with a missing field ends with an exception.
C5_MissingFieldIsNoError ==
    ~(pc = "error" /\ \E k \in DOMAIN new_rows : missing_field(new_rows[k]))

\* C6: config isolation: an invocation in one mode leaves the hash file and
\* the document of the other mode as they are, reads no hash file but its
\* own, and reports as new the rows whose hash is not in its own hash file.
C6_ConfigIsolation ==
    [][/\ mode = "clippings" =>
            /\ file'["printed_magazines.hashes"] = file["printed_magazines.hashes"]
            /\ doc'["labels_magazines.pdf"] = doc["labels_magazines.pdf"]
       /\ mode = "magazines" =>
            /\ file'["printed_clippings.hashes"] = file["printed_clippings.hashes"]
            /\ doc'["labels_clippings.pdf"] = doc["labels_clippings.pdf"]
       /\ mode = "none" => file' = file /\ doc' = doc
       /\ "printed_magazines.hashes" \in reads' => mode' = "magazines"
       /\ "printed_clippings.hashes" \in reads' => mode' = "clippings"
       /\ pc' = "branch" =>
            LET own == IF mode' = "clippings" THEN "printed_clippings.hashes"
                       ELSE "printed_magazines.hashes"
                fresh(r) == hash_row(r) \notin load_hashes(file'[own])
            IN  new_rows' = SelectSeq(csv, fresh)]_vars

\* a row that an invocation in clippings mode has printed and recorded is
\* new to an invocation in magazines mode
C6_Witness ==
    /\ pc = "branch"
    /\ mode = "magazines"
    /\ doc["labels_clippings.pdf"].exists
    /\ \E k \in DOMAIN new_rows :
        /\ hash_row(new_rows[k]) \in load_hashes(file["printed_clippings.hashes"])
        /\ hash_row(new_rows[k]) \notin load_hashes(file["printed_magazines.hashes"])

\* C7: disk untouched on no-op: an invocation that found no new row has
\* opened no file for writing, and every hash file and document is as it was
\* when the invocation started.
C7_DiskUntouchedOnNoOp ==
    (pc = "done" /\ new_rows = <<>>) => writes = {} /\ file = file0 /\ doc = doc0

\* every row of a catalogue with rows is in the seen-set of the mode
C7_Witness ==
    /\ pc = "done"
    /\ new_rows = <<>>
    /\ csv # <<>>
    /\ file0[hash_file_for_mode(mode)].exists

\* C8: a user-input or configuration error is terminal and free of side
\* effects: an answer other than c or m, a file name that does not exist and
\* a page that holds no column or no row of labels end the invocation with
\* an exception; no document is written, no hash file is changed, and after
\* the two user-input errors nothing has been read.
C8_ErrorsAreTerminal ==
    /\ pc \notin {"mode", "error"} => answer \in {<<"c">>, <<"m">>}
    /\ pc \notin {"mode", "csv", "error"} => csv_name = [stem |-> "data", csv |-> TRUE]
    /\ (pc \in {"save_hashes", "write", "print", "done"} /\ new_rows # <<>>) =>
            /\ usable_width(page) >= label_w(mode)
            /\ usable_height(page) >= label_h(mode)
    /\ pc = "error" => writes = {} /\ file = file0 /\ doc = doc0
    /\ (pc = "error" /\ err \in {"ValueError", "FileNotFoundError"}) => reads = {}

\* a page too narrow or too short for one label ends generate_labels
C8_Witness ==
    /\ pc = "error"
    /\ err = "ZeroDivisionError"
    /\ new_rows # <<>>
    /\ usable_width(page) < label_w(mode) \/ usable_height(page) < label_h(mode)

\* C9: placement order: the k-th rectangle drawn is that of the k-th new
\* row, at column (k-1) mod cols, row ((k-1) div cols) mod rows_per_page, on
\* the page (k-1) div (cols * rows_per_page), which is the number of pages
\* shown before it; and the document holds one rectangle per new row.
C9_PlacementOrder ==
    /\ Len(cells_drawn) = i
    /\ \A k \in DOMAIN cells_drawn :
        LET cell == cells_drawn[k]
            pg == (k - 1) \div (cols * rows_per_page)
        IN  /\ cell.idx = k - 1
            /\ cell.line1 = new_rows[k].Magazine
            /\ cell.line2 = format(new_rows[k].Edition) \o <<"/">> \o format(new_rows[k].Year)
            /\ cell.col = (k - 1) % cols
            /\ cell.row_i = ((k - 1) \div cols) % rows_per_page
            /\ cell.page = pg
            /\ IF pg < Len(canvas.pages)
               THEN \E j \in DOMAIN canvas.pages[pg + 1] : canvas.pages[pg + 1][j] = cell
               ELSE \E j \in DOMAIN canvas.cur : canvas.cur[j] = cell
    /\ (pc \in {"save_hashes", "write", "print", "done"} /\ new_rows # <<>>) =>
            /\ flatten(doc[doc_file_for_mode(mode)].pages) = cells_drawn
            /\ Len(cells_drawn) = Len(new_rows)

\* 25 new rows on a grid of 3 columns and 8 rows: index 23 is the last cell
\* of the first page, index 24 the first cell of the second
C9_Witness ==
    /\ pc = "done"
    /\ cols = 3
    /\ rows_per_page = 8
    /\ Len(new_rows) = 25
    /\ Len(doc[doc_file_for_mode(mode)].pages) = 2
    /\ LET a == cells_drawn[24]
           b == cells_drawn[25]
       IN  /\ a.col = 2 /\ a.row_i = 7 /\ a.page = 0
           /\ b.col = 0 /\ b.row_i = 0 /\ b.page = 1

\* C10: the seen-set of a mode only grows: when an invocation has ended,
\* every hash file holds the hashes it held when the invocation started, and
\* after an invocation that found new rows the hash file of the mode holds
\* the loaded set and the hashes of all rows of the input, and nothing else.
C10_SeenSetGrows ==
    /\ pc \in {"done", "error"} =>
           \A p \in HashPaths : load_hashes(file0[p]) \subseteq load_hashes(file[p])
    /\ (pc = "done" /\ new_rows # <<>>) =>
           /\ known = load_hashes(file0[hash_file_for_mode(mode)])
           /\ load_hashes(file[hash_file_for_mode(mode)]) = known \cup hashes_of(csv)

\* new rows are saved next to a hash that is of no row of the input
C10_Witness ==
    /\ pc = "done"
    /\ new_rows # <<>>
    /\ ~(known \subseteq hashes_of(csv))
    /\ ~(hashes_of(csv) \subseteq known)

====
